---- MODULE Spec2Model ----
(***************************************************************************)
(* State-machine model of ChatbotAPIService (src/src/index.ts): the        *)
(* request queue and its worker (handleChatRequest, processQueue,          *)
(* askChatbot), the browser lifecycle (initialize, the 'disconnected'      *)
(* handler, reinitialize) and shutdown.                                    *)
(*                                                                         *)
(* Node.js runs one callback at a time: every action below is one          *)
(* synchronous run of a handler or of an async function's continuation,    *)
(* from the event that resumes it to its next await (or return).  A        *)
(* promise that is already settled when awaited resumes in a microtask,    *)
(* before any other handler runs, so it does not end the action.           *)
(***************************************************************************)
EXTENDS Integers, Sequences, FiniteSets, TLC

\* ---------------------------------------------------------------- bounds
MaxRequests == 3      \* /chat submissions accepted into the queue
MaxLaunches == 2      \* successful puppeteer.launch() calls
MaxWorkers == 2       \* processQueue invocations that may be suspended at once
MaxInits == 2         \* initialize invocations that may be suspended at once
MaxCookies == 2       \* distinct cookies a page may hold
MaxAnswerLength == 3  \* pieces of text in one answer

\* The "maximum length" of a prompt that spec.md names; the source sets none.
MaxPromptLength == 1

Workers == 1..MaxWorkers
InitSlots == 1..MaxInits
ReqIds == 1..MaxRequests

\* ---------------------------------------------------------------- state
VARIABLES
  browser,        \* this.browser: 0 is null, else the id of a launched browser
  page,           \* this.page: 0 is null, else the id of the browser it belongs to
  connected,      \* the launched browsers whose connection is still open
  handlerOn,      \* the browsers with a 'disconnected' listener registered
  nextBrowser,    \* id the next launched browser gets
  isInitialized,  \* this.isInitialized
  requestQueue,   \* this.requestQueue, as the sequence of request ids
  isProcessing,   \* this.isProcessing
  worker,         \* per processQueue invocation: where it is suspended, and its local req/res
  init,           \* per initialize invocation: where it is suspended, and who called it
  reinitTimers,   \* pending setTimeout(..., 5000) callbacks of reinitialize
  lastInit,       \* outcome of the initialize invocation that finished last
  listening,      \* app.listen has been called
  shutdownPc,     \* where shutdown() is suspended
  closing,        \* the browser shutdown() has called close() on, 0 for none
  sessionFile,    \* CONFIG.sessionFile exists on disk
  exited,         \* process.exit was called
  nextReq,        \* id the next queued request gets
  last,           \* the /chat submission handled last and the answer it got at once
  delivered,      \* the responses the worker has sent, in order: [req, status]
  asked,          \* per request id, how many askChatbot invocations it caused
  saveOn,         \* the page shutdown's saveSession has an operation pending on, 0 for none
  admin,          \* handleSaveSession: where it is suspended, and the page of its pending operation
  rt,             \* a session taken through saveSession and loadSession
  ans             \* an answer text taken through processQueue's parsing

vars == <<browser, page, connected, handlerOn, nextBrowser, isInitialized,
          requestQueue, isProcessing, worker, init, reinitTimers, lastInit,
          listening, shutdownPc, closing, sessionFile, exited, nextReq, last,
          delivered, asked, saveOn, admin, rt, ans>>

browserVars == <<browser, page, connected, handlerOn, nextBrowser>>
queueVars == <<requestQueue, isProcessing, worker, delivered, asked>>
initVars == <<init, reinitTimers, lastInit, listening>>
chatVars == <<nextReq, last>>
auxVars == <<admin, rt, ans>>
serviceVars == <<browserVars, isInitialized, initVars, queueVars, shutdownPc,
                 closing, sessionFile, exited, chatVars, saveOn, admin>>

\* ---------------------------------------------------------------- inputs
\* req.body.prompt: absent, a non-string value, or a string of some length.
Prompts ==
  {[kind |-> "absent", len |-> 0], [kind |-> "number", len |-> 0]}
    \cup {[kind |-> "string", len |-> n] : n \in 0..(MaxPromptLength + 1)}

NoWorker == [pc |-> "none", req |-> 0, on |-> 0]
NoInit == [pc |-> "none", caller |-> "none"]
NoAdmin == [pc |-> "none", on |-> 0]
NoRoundTrip == [pc |-> "none"]
NoAnswer == [pc |-> "none"]
\* The authorization middleware answers before req.body.prompt is looked at.
Unread == [kind |-> "unread", len |-> 0]

NoSubmission == [auth |-> TRUE, prompt |-> Unread, status |-> "none"]

\* The await points of askChatbot, in order.
AskPcs == {"ask_drive", "ask_indicator", "ask_gone", "ask_settle",
           "ask_extract", "ask_snapshot"}

ServiceInit ==
  /\ browser = 0
  /\ page = 0
  /\ connected = {}
  /\ handlerOn = {}
  /\ nextBrowser = 1
  /\ isInitialized = FALSE
  /\ requestQueue = <<>>
  /\ isProcessing = FALSE
  /\ worker = [w \in Workers |-> NoWorker]
  /\ init = [i \in InitSlots |->
               IF i = 1 THEN [pc |-> "launch", caller |-> "start"] ELSE NoInit]
  /\ reinitTimers = 0
  /\ lastInit = "none"
  /\ listening = FALSE
  /\ shutdownPc = "none"
  /\ closing = 0
  /\ sessionFile \in BOOLEAN
  /\ exited = FALSE
  /\ nextReq = 1
  /\ last = NoSubmission
  /\ delivered = <<>>
  /\ asked = [r \in ReqIds |-> 0]
  /\ saveOn = 0
  /\ admin = NoAdmin

Init ==
  /\ ServiceInit
  /\ rt = NoRoundTrip
  /\ ans = NoAnswer

\* ------------------------------------------------------- request queue
\* handleChatRequest, line 125: !prompt || typeof prompt !== 'string'.
\* The empty string is falsy; no length limit is tested anywhere.
PromptInvalid(p) == p.kind # "string" \/ p.len = 0

\* The authorization middleware, lines 84-89, sends 401 before the route runs.
Unauthorized(auth) == ~auth

NotReadyAlwaysAccept(flag) == FALSE
\* handleChatRequest, line 130: !this.isInitialized.
NotReady(flag) == ~flag

EntryFlagUnset == FALSE
\* processQueue, line 158: this.isProcessing = true.
EntryFlag == TRUE

QueuePeekLast(q) == q[Len(q)]
\* processQueue, line 161: this.requestQueue[0].
QueuePeek(q) == q[1]

\* processQueue, line 191: this.requestQueue.shift().
QueueShift(q) == Tail(q)

\* A page operation of puppeteer rejects when the page's browser is gone.
PageAlive == page \in connected

Response(r, st) == [req |-> r, status |-> st]

Bump(f, r) == [f EXCEPT ![r] = IF @ < 3 THEN @ + 1 ELSE @]

\* A worker that takes the next item at once after answering.
DeliverOkNoCooldown(w, cur, q) ==
  /\ delivered' = Append(delivered, Response(cur, 200))
  /\ requestQueue' = QueueShift(q)
  /\ worker' = [worker EXCEPT
                  ![w] = IF Len(q) > 1
                           THEN [pc |-> "ask_drive", req |-> QueueShift(q)[1],
                                 on |-> page]
                           ELSE [pc |-> "cooldown", req |-> 0, on |-> 0]]

\* processQueue, lines 181 and 190-194: res.json(parsedAnswer), shift, then
\* the worker is suspended on the 1000 ms timer.
DeliverOk(w, cur, q) ==
  /\ delivered' = Append(delivered, Response(cur, 200))
  /\ requestQueue' = QueueShift(q)
  /\ worker' = [worker EXCEPT ![w] = [pc |-> "cooldown", req |-> 0, on |-> 0]]

\* A catch block that answers every queued request with the error.
DeliverErrorToAll(w, cur, q, proc) ==
  /\ delivered' = delivered \o [i \in 1..Len(q) |-> Response(q[i], 500)]
  /\ requestQueue' = QueueShift(q)
  /\ worker' = [worker EXCEPT ![w] = [pc |-> "cooldown", req |-> 0, on |-> 0]]
  /\ isProcessing' = proc

\* processQueue, lines 182-194: askChatbot threw; the catch block sends 500
\* on the local res, then shift, then the worker is suspended on the 1000 ms
\* timer.  proc is the flag as this step has left it so far.
DeliverError(w, cur, q, proc) ==
  /\ delivered' = Append(delivered, Response(cur, 500))
  /\ requestQueue' = QueueShift(q)
  /\ worker' = [worker EXCEPT ![w] = [pc |-> "cooldown", req |-> 0, on |-> 0]]
  /\ isProcessing' = proc

\* processQueue, lines 160-165 and 197: the loop test and, when the queue is
\* not empty, the call of askChatbot up to its first await.  askChatbot
\* throws at once when this.page is null (lines 201-203); the rejected
\* promise resumes the worker in a microtask, so the catch block runs in the
\* same step.  q and proc are the queue and the flag as this step has left
\* them so far.
LoopTop(w, q, proc) ==
  IF Len(q) = 0
    THEN /\ isProcessing' = FALSE
         /\ worker' = [worker EXCEPT ![w] = NoWorker]
         /\ requestQueue' = q
         /\ UNCHANGED <<delivered, asked>>
    ELSE /\ asked' = Bump(asked, QueuePeek(q))
         /\ IF page = 0
              THEN DeliverError(w, QueuePeek(q), q, proc)
              ELSE /\ worker' = [worker EXCEPT
                                   ![w] = [pc |-> "ask_drive", req |-> QueuePeek(q),
                                           on |-> page]]
                   /\ requestQueue' = q
                   /\ isProcessing' = proc
                   /\ UNCHANGED delivered

FreeWorker == CHOOSE w \in Workers :
                /\ worker[w].pc = "none"
                /\ \A v \in Workers : worker[v].pc = "none" => w <= v

\* processQueue, lines 153-158, called with the queue q.
ProcessQueue(q) ==
  IF isProcessing \/ Len(q) = 0
    THEN /\ requestQueue' = q
         /\ UNCHANGED <<isProcessing, worker, delivered, asked>>
    ELSE /\ \E w \in Workers : worker[w].pc = "none"
         /\ LoopTop(FreeWorker, q, EntryFlag)

\* A handler that never starts the worker.
KickWorkerNever(proc) == FALSE

\* handleChatRequest, line 138: the worker is started when it is not running.
KickWorker(proc) == ~proc

Submission(a, p, st) == [auth |-> a, prompt |-> p, status |-> st]

\* POST /chat: the authorization middleware (lines 82-92), then
\* handleChatRequest (lines 122-141).
HandleChatRequest(a, p) ==
  /\ listening /\ ~exited
  /\ IF Unauthorized(a)
       THEN /\ last' = Submission(a, Unread, "401")
            /\ UNCHANGED <<nextReq, queueVars>>
     ELSE IF PromptInvalid(p)
       THEN /\ last' = Submission(a, p, "400")
            /\ UNCHANGED <<nextReq, queueVars>>
     ELSE IF NotReady(isInitialized)
       THEN /\ last' = Submission(a, p, "503")
            /\ UNCHANGED <<nextReq, queueVars>>
     ELSE /\ nextReq <= MaxRequests
          /\ last' = Submission(a, p, "queued")
          /\ nextReq' = nextReq + 1
          /\ IF KickWorker(isProcessing)
               THEN ProcessQueue(Append(requestQueue, nextReq))
               ELSE /\ requestQueue' = Append(requestQueue, nextReq)
                    /\ UNCHANGED <<isProcessing, worker, delivered, asked>>
  /\ UNCHANGED <<browserVars, isInitialized, initVars, shutdownPc, closing, sessionFile, exited>>
  /\ UNCHANGED <<saveOn, auxVars>>

\* The submissions: any prompt with the right bearer token, and one without
\* it (its body is never looked at).
ChatSubmit ==
  \/ \E p \in Prompts : HandleChatRequest(TRUE, p)
  \/ HandleChatRequest(FALSE, Unread)

\* askChatbot threw (line 294) and processQueue's catch block runs.
AskThrows(w) ==
  /\ DeliverError(w, worker[w].req, requestQueue, isProcessing)
  /\ UNCHANGED asked

\* The operation a worker awaits was issued on the page that this.page
\* named then; it resolves only while that page's browser is connected.
OpAlive(w) == worker[w].on \in connected

\* askChatbot goes on to its next await: a page operation is issued on what
\* this.page names now, a timer on no page.
AskMoves(w, pc) ==
  /\ worker' = [worker EXCEPT ![w].pc = pc,
                              ![w].on = IF pc = "ask_settle" THEN 0 ELSE page]
  /\ UNCHANGED <<requestQueue, isProcessing, delivered, asked>>

\* askChatbot, lines 205-259: navigation, input, submit.
AskDrive(w) ==
  /\ worker[w].pc = "ask_drive" /\ ~exited
  /\ \/ OpAlive(w) /\ AskMoves(w, "ask_indicator")
     \/ AskThrows(w)
  /\ UNCHANGED <<browserVars, isInitialized, initVars, shutdownPc, closing, sessionFile,
                 exited, chatVars>>
  /\ UNCHANGED <<saveOn, auxVars>>

\* askChatbot, lines 262-271: the stop button appears within 5000 ms, or the
\* wait rejects and the inner catch starts the 4000 ms settle delay.
AskIndicator(w) ==
  /\ worker[w].pc = "ask_indicator" /\ ~exited
  /\ \/ OpAlive(w) /\ AskMoves(w, "ask_gone")
     \/ AskMoves(w, "ask_settle")
  /\ UNCHANGED <<browserVars, isInitialized, initVars, shutdownPc, closing, sessionFile,
                 exited, chatVars>>
  /\ UNCHANGED <<saveOn, auxVars>>

\* askChatbot, lines 265-271: the stop button is gone, or the wait rejects
\* (response timeout, browser gone) and the inner catch starts the settle delay.
AskGone(w) ==
  /\ worker[w].pc = "ask_gone" /\ ~exited
  /\ \/ OpAlive(w) /\ AskMoves(w, "ask_extract")
     \/ AskMoves(w, "ask_settle")
  /\ UNCHANGED <<browserVars, isInitialized, initVars, shutdownPc, closing, sessionFile,
                 exited, chatVars>>
  /\ UNCHANGED <<saveOn, auxVars>>

\* askChatbot, line 270: the settle delay elapses.
AskSettle(w) ==
  /\ worker[w].pc = "ask_settle" /\ ~exited
  /\ AskMoves(w, "ask_extract")
  /\ UNCHANGED <<browserVars, isInitialized, initVars, shutdownPc, closing, sessionFile,
                 exited, chatVars>>
  /\ UNCHANGED <<saveOn, auxVars>>

\* askChatbot, lines 274-292: the extraction resolves; a non-empty text is
\* returned, an empty one starts the screenshot.
AskExtract(w) ==
  /\ worker[w].pc = "ask_extract" /\ ~exited
  /\ \/ /\ OpAlive(w)
        /\ DeliverOk(w, worker[w].req, requestQueue)
        /\ UNCHANGED <<isProcessing, asked>>
     \/ OpAlive(w) /\ AskMoves(w, "ask_snapshot")
     \/ AskThrows(w)
  /\ UNCHANGED <<browserVars, isInitialized, initVars, shutdownPc, closing, sessionFile,
                 exited, chatVars>>
  /\ UNCHANGED <<saveOn, auxVars>>

\* askChatbot, lines 286-295: screenshot, page.content and writeFile are
\* awaited inside the same try block, so their failure is rethrown too.
AskSnapshot(w) ==
  /\ worker[w].pc = "ask_snapshot" /\ ~exited
  /\ \/ /\ OpAlive(w)
        /\ DeliverOk(w, worker[w].req, requestQueue)
        /\ UNCHANGED <<isProcessing, asked>>
     \/ AskThrows(w)
  /\ UNCHANGED <<browserVars, isInitialized, initVars, shutdownPc, closing, sessionFile,
                 exited, chatVars>>
  /\ UNCHANGED <<saveOn, auxVars>>

\* processQueue, lines 194-197 and 160: the cooldown timer fires.
CooldownElapsed(w) ==
  /\ worker[w].pc = "cooldown" /\ ~exited
  /\ LoopTop(w, requestQueue, isProcessing)
  /\ UNCHANGED <<browserVars, isInitialized, initVars, shutdownPc, closing, sessionFile,
                 exited, chatVars>>
  /\ UNCHANGED <<saveOn, auxVars>>

\* ---------------------------------------------------- browser lifecycle
FreeInit == CHOOSE i \in InitSlots :
              /\ init[i].pc = "none"
              /\ \A j \in InitSlots : init[j].pc = "none" => i <= j

InitMoves(i, pc) == init' = [init EXCEPT ![i].pc = pc]

\* initialize, lines 410-413, rethrows.  start() has no catch: the rejection
\* reaches line 470 and the process exits (lines 470-473).  The timer
\* callback of reinitialize catches and logs (lines 419-423).
InitThrows(i) ==
  /\ init' = [init EXCEPT ![i] = NoInit]
  /\ lastInit' = "failed"
  /\ exited' = (init[i].caller = "start")
  /\ UNCHANGED <<browserVars, isInitialized, reinitTimers, listening>>

\* initialize, lines 376-391: puppeteer.launch resolves and browser.pages()
\* is called, or launch rejects.
InitLaunch(i) ==
  /\ init[i].pc = "launch" /\ ~exited
  /\ \/ /\ nextBrowser <= MaxLaunches
        /\ browser' = nextBrowser
        /\ connected' = connected \cup {nextBrowser}
        /\ nextBrowser' = nextBrowser + 1
        /\ InitMoves(i, "pages")
        /\ UNCHANGED <<page, handlerOn, isInitialized, reinitTimers, lastInit,
                       listening, exited>>
     \/ InitThrows(i)
  /\ UNCHANGED <<queueVars, shutdownPc, closing, sessionFile, chatVars>>
  /\ UNCHANGED <<saveOn, auxVars>>

\* initialize, lines 391-395: the page handle is taken and setUserAgent is
\* called; browser.pages() rejects when the browser is gone.
InitPages(i) ==
  /\ init[i].pc = "pages" /\ ~exited
  /\ IF browser \in connected
       THEN /\ page' = browser
            /\ InitMoves(i, "ua")
            /\ UNCHANGED <<browser, connected, handlerOn, nextBrowser,
                           isInitialized, reinitTimers, lastInit, listening, exited>>
       ELSE InitThrows(i)
  /\ UNCHANGED <<queueVars, shutdownPc, closing, sessionFile, chatVars>>
  /\ UNCHANGED <<saveOn, auxVars>>

\* initialize, lines 395-398, and loadSession, lines 328-333: setUserAgent
\* resolves and loadSession runs to its first await, fs.pathExists.
InitUserAgent(i) ==
  /\ init[i].pc = "ua" /\ ~exited
  /\ IF PageAlive
       THEN /\ InitMoves(i, "ls_exists")
            /\ UNCHANGED <<browserVars, isInitialized, reinitTimers, lastInit,
                           listening, exited>>
       ELSE InitThrows(i)
  /\ UNCHANGED <<queueVars, shutdownPc, closing, sessionFile, chatVars>>
  /\ UNCHANGED <<saveOn, auxVars>>

\* initialize, lines 398-408: loadSession has returned (true or false, it
\* never throws); the flag is set and the 'disconnected' listener is
\* registered on this.browser.  start(), lines 428-434, then calls app.listen.
InitCompletes(i) ==
  /\ isInitialized' = TRUE
  /\ handlerOn' = handlerOn \cup {browser}
  /\ lastInit' = "ok"
  /\ listening' = (listening \/ init[i].caller = "start")
  /\ init' = [init EXCEPT ![i] = NoInit]
  /\ UNCHANGED <<browser, page, connected, nextBrowser, reinitTimers, exited>>

\* loadSession, lines 333-343: fs.pathExists resolves.
LoadExists(i) ==
  /\ init[i].pc = "ls_exists" /\ ~exited
  /\ InitMoves(i, IF sessionFile THEN "ls_read" ELSE "ls_nav_fresh")
  /\ UNCHANGED <<browserVars, isInitialized, reinitTimers, lastInit, listening,
                 exited, queueVars, shutdownPc, closing, sessionFile, chatVars>>
  /\ UNCHANGED <<saveOn, auxVars>>

\* A loadSession whose catch block rethrows.
LoadFailsRethrows(i) == InitThrows(i)

\* loadSession, lines 366-369, and initialize, lines 398-408: an awaited
\* step rejected, the catch block logs and returns false, and initialize goes
\* on as after any other return of loadSession.
LoadFails(i) == InitCompletes(i)

\* loadSession, lines 336-340 and 366-369: the navigation without a saved
\* session resolves or rejects; either way loadSession returns false.
LoadNavFresh(i) ==
  /\ init[i].pc = "ls_nav_fresh" /\ ~exited
  /\ \/ PageAlive /\ InitCompletes(i)
     \/ LoadFails(i)
  /\ UNCHANGED <<queueVars, shutdownPc, closing, sessionFile, chatVars>>
  /\ UNCHANGED <<saveOn, auxVars>>

\* loadSession, lines 343-362: the awaits of the restore path, in order.
LoadNextPc(pc) ==
  CASE pc = "ls_read" -> "ls_nav"
    [] pc = "ls_nav" -> "ls_cookies"
    [] pc = "ls_cookies" -> "ls_storage"
    [] pc = "ls_storage" -> "ls_reload"
    [] pc = "ls_reload" -> "ls_done"

LoadPagePcs == {"ls_nav", "ls_cookies", "ls_storage", "ls_reload"}

\* loadSession, lines 343-369: one await of the restore path resolves, or it
\* rejects and the catch block returns false.
LoadRestoreStep(i) ==
  /\ init[i].pc \in {"ls_read"} \cup LoadPagePcs /\ ~exited
  /\ \/ /\ init[i].pc \in LoadPagePcs => PageAlive
        /\ IF LoadNextPc(init[i].pc) = "ls_done"
             THEN InitCompletes(i)
             ELSE /\ InitMoves(i, LoadNextPc(init[i].pc))
                  /\ UNCHANGED <<browserVars, isInitialized, reinitTimers,
                                 lastInit, listening, exited>>
     \/ LoadFails(i)
  /\ UNCHANGED <<queueVars, shutdownPc, closing, sessionFile, chatVars>>
  /\ UNCHANGED <<saveOn, auxVars>>

\* A handler that clears the flag and schedules nothing.
OnDisconnectedNoRetry(b) ==
  /\ isInitialized' = FALSE
  /\ UNCHANGED reinitTimers

\* A handler that schedules two reinitializations.
OnDisconnectedTwice(b) ==
  /\ isInitialized' = FALSE
  /\ reinitTimers' = reinitTimers + 2

\* initialize, lines 404-408, and reinitialize, lines 416-425: the
\* 'disconnected' listener clears the flag and reinitialize sets the
\* 5000 ms timer.
OnDisconnected(b) ==
  /\ isInitialized' = FALSE
  /\ reinitTimers' = reinitTimers + 1

\* The browser process dies or its connection closes: puppeteer emits
\* 'disconnected' once, to the listeners registered at that moment.
BrowserDisconnects(b) ==
  /\ b \in connected /\ ~exited
  /\ connected' = connected \ {b}
  /\ IF b \in handlerOn
       THEN OnDisconnected(b)
       ELSE UNCHANGED <<isInitialized, reinitTimers>>
  /\ UNCHANGED <<browser, page, handlerOn, nextBrowser, init, lastInit,
                 listening, queueVars, shutdownPc, closing, sessionFile, exited,
                 chatVars>>
  /\ UNCHANGED <<saveOn, auxVars>>

\* reinitialize, lines 418-420: the timer fires and initialize runs to its
\* first await, puppeteer.launch.
ReinitTimerFires ==
  /\ reinitTimers > 0 /\ ~exited
  /\ \E i \in InitSlots : init[i].pc = "none"
  /\ reinitTimers' = reinitTimers - 1
  /\ init' = [init EXCEPT ![FreeInit] = [pc |-> "launch", caller |-> "reinit"]]
  /\ UNCHANGED <<browserVars, isInitialized, lastInit, listening, queueVars,
                 shutdownPc, closing, sessionFile, exited, chatVars>>
  /\ UNCHANGED <<saveOn, auxVars>>

\* --------------------------------------------------------------- shutdown
\* shutdown, lines 453-458: close the browser if there is one, else exit.
ShutdownClose ==
  IF browser # 0
    THEN /\ shutdownPc' = "close"
         /\ closing' = browser
         /\ saveOn' = 0
         /\ UNCHANGED exited
    ELSE /\ shutdownPc' = "exited"
         /\ exited' = TRUE
         /\ saveOn' = 0
         /\ UNCHANGED closing

\* shutdown, lines 441-451, from the loop test: wait while the queue is not
\* empty; then saveSession (lines 298-303) runs to its first await,
\* page.cookies(), or throws at once when this.page is null.
ShutdownPoll ==
  IF Len(requestQueue) > 0
    THEN /\ shutdownPc' = "poll_wait"
         /\ UNCHANGED <<closing, exited, saveOn>>
    ELSE IF page = 0
      THEN ShutdownClose
      ELSE /\ shutdownPc' = "save_cookies"
           /\ saveOn' = page
           /\ UNCHANGED <<closing, exited>>

\* SIGTERM or SIGINT, lines 466-467: shutdown() starts.
ShutdownSignal ==
  /\ shutdownPc = "none" /\ ~exited
  /\ ShutdownPoll
  /\ UNCHANGED <<browserVars, isInitialized, initVars, queueVars, sessionFile,
                 chatVars>>
  /\ UNCHANGED auxVars

\* shutdown, line 443: the 1000 ms poll timer fires.
ShutdownPollTimer ==
  /\ shutdownPc = "poll_wait" /\ ~exited
  /\ ShutdownPoll
  /\ UNCHANGED <<browserVars, isInitialized, initVars, queueVars, sessionFile,
                 chatVars>>
  /\ UNCHANGED auxVars

\* saveSession, lines 303-323, awaited by shutdown (lines 447-451): cookies,
\* localStorage and the file write resolve in turn; a rejection is caught
\* and logged by shutdown, which goes on to close the browser.
ShutdownSaveStep ==
  /\ shutdownPc \in {"save_cookies", "save_storage", "save_write"} /\ ~exited
  /\ \/ /\ shutdownPc = "save_cookies" /\ saveOn \in connected
        /\ shutdownPc' = "save_storage"
        /\ saveOn' = page
        /\ UNCHANGED <<closing, exited, sessionFile>>
     \/ /\ shutdownPc = "save_storage" /\ saveOn \in connected
        /\ shutdownPc' = "save_write"
        /\ saveOn' = 0
        /\ UNCHANGED <<closing, exited, sessionFile>>
     \/ /\ shutdownPc = "save_write"
        /\ sessionFile' = TRUE
        /\ ShutdownClose
     \/ /\ ShutdownClose
        /\ UNCHANGED sessionFile
  /\ UNCHANGED <<browserVars, isInitialized, initVars, queueVars, chatVars>>
  /\ UNCHANGED auxVars

\* shutdown, lines 455-458: browser.close() has resolved, which is after the
\* connection closed and 'disconnected' was emitted (BrowserDisconnects);
\* process.exit follows.
ShutdownExit ==
  /\ shutdownPc = "close" /\ ~exited
  /\ closing \notin connected
  /\ shutdownPc' = "exited"
  /\ exited' = TRUE
  /\ UNCHANGED <<browserVars, isInitialized, initVars, queueVars, closing,
                 sessionFile, chatVars, saveOn>>
  /\ UNCHANGED auxVars

\* ------------------------------------------------------------ transitions
Next ==
  \/ ChatSubmit
  \/ \E w \in Workers : AskDrive(w)
  \/ \E w \in Workers : AskIndicator(w)
  \/ \E w \in Workers : AskGone(w)
  \/ \E w \in Workers : AskSettle(w)
  \/ \E w \in Workers : AskExtract(w)
  \/ \E w \in Workers : AskSnapshot(w)
  \/ \E w \in Workers : CooldownElapsed(w)
  \/ \E i \in InitSlots : InitLaunch(i)
  \/ \E i \in InitSlots : InitPages(i)
  \/ \E i \in InitSlots : InitUserAgent(i)
  \/ \E i \in InitSlots : LoadExists(i)
  \/ \E i \in InitSlots : LoadNavFresh(i)
  \/ \E i \in InitSlots : LoadRestoreStep(i)
  \/ \E b \in 1..MaxLaunches : BrowserDisconnects(b)
  \/ ReinitTimerFires
  \/ ShutdownSignal
  \/ ShutdownPollTimer
  \/ ShutdownSaveStep
  \/ ShutdownExit

Spec == Init /\ [][Next]_vars

\* ------------------------------------------------------ POST /admin/save-session
\* handleSaveSession, lines 143-145, and saveSession, lines 298-303: the
\* route is not behind the key check (line 84); saveSession throws at once
\* when this.page is null and handleSaveSession answers 500, else
\* page.cookies() is awaited.
AdminSaveRequest ==
  /\ listening /\ ~exited
  /\ admin.pc = "none" /\ page # 0
  /\ admin' = [pc |-> "cookies", on |-> page]
  /\ UNCHANGED <<browserVars, isInitialized, initVars, queueVars, shutdownPc,
                 closing, sessionFile, exited, chatVars, saveOn, rt, ans>>

\* saveSession, lines 303-324, and handleSaveSession, lines 146-150: an
\* awaited step resolves and the next one is issued, or it rejects and the
\* handler answers 500; writeJSON leaves the session file behind.
AdminSaveStep ==
  /\ admin.pc # "none" /\ ~exited
  /\ \/ /\ admin.pc = "cookies" /\ admin.on \in connected
        /\ admin' = [pc |-> "storage", on |-> page]
        /\ UNCHANGED sessionFile
     \/ /\ admin.pc = "storage" /\ admin.on \in connected
        /\ admin' = [pc |-> "write", on |-> 0]
        /\ UNCHANGED sessionFile
     \/ /\ admin.pc = "write"
        /\ admin' = NoAdmin
        /\ sessionFile' = TRUE
     \/ /\ admin' = NoAdmin
        /\ UNCHANGED sessionFile
  /\ UNCHANGED <<browserVars, isInitialized, initVars, queueVars, shutdownPc,
                 closing, exited, chatVars, saveOn, rt, ans>>

\* The service with its admin route in use.
AdminNext ==
  \/ Next
  \/ AdminSaveRequest
  \/ AdminSaveStep

AdminSpec == Init /\ [][AdminNext]_vars

TypeOK ==
  /\ browser \in 0..MaxLaunches
  /\ page \in 0..MaxLaunches
  /\ connected \subseteq 1..MaxLaunches
  /\ handlerOn \subseteq 1..MaxLaunches
  /\ isInitialized \in BOOLEAN
  /\ isProcessing \in BOOLEAN
  /\ \A w \in Workers : worker[w].pc \in {"none", "cooldown"} \cup AskPcs
  /\ reinitTimers \in Nat
  /\ Len(requestQueue) <= MaxRequests

\* Timers fire and every awaited operation settles: each engine call of
\* initialize and loadSession resolves or rejects within its timeout.
InitProgress(i) ==
  \/ InitLaunch(i) \/ InitPages(i) \/ InitUserAgent(i)
  \/ LoadExists(i) \/ LoadNavFresh(i) \/ LoadRestoreStep(i)

FairSpec ==
  /\ Spec
  /\ WF_vars(ReinitTimerFires)
  /\ WF_vars(\E i \in InitSlots : InitProgress(i))

\* ------------------------------------------- saveSession and loadSession data
\* What a page holds for the site: cookies, and localStorage as a map from
\* keys to values.  The empty string is a legal key and a legal value.
CookieJar == 1..MaxCookies
Keys == {"", "k"}
Values == {"", "v"}
Storages == UNION {[K -> Values] : K \in SUBSET Keys}
Sessions == [cookies : SUBSET CookieJar, storage : Storages]
EmptyStorage == [k \in {} |-> ""]
FreshPage == [cookies |-> {}, storage |-> EmptyStorage]

\* JavaScript truthiness of a string or null: '' and null are falsy.
Truthy(x) == x # ""

\* An array or an object's entries, in some order.
RECURSIVE SetToSeq(_)
SetToSeq(S) ==
  IF S = {} THEN <<>>
  ELSE LET x == CHOOSE y \in S : TRUE IN <<x>> \o SetToSeq(S \ {x})

\* saveSession, line 311: `if (key)`.
KeepKey(key) == Truthy(key)

\* saveSession, lines 306-315: the loop over window.localStorage inside
\* page.evaluate: `if (key) data[key] = getItem(key) || ''`.
CollectStorage(st) ==
  [k \in {key \in DOMAIN st : KeepKey(key)} |->
     IF Truthy(st[k]) THEN st[k] ELSE ""]

\* Object.entries(data): the members of an object, in order.
Entries(data) ==
  LET ks == SetToSeq(DOMAIN data)
  IN [n \in 1..Len(ks) |-> <<ks[n], data[ks[n]]>>]

\* fs.writeJSON, line 323: the object is written as text, its members in order.
WriteJSON(cookies, data) ==
  [cookies |-> cookies, localStorage |-> Entries(data)]

\* window.localStorage.setItem(key, value).
SetItem(st, key, value) ==
  [k \in DOMAIN st \cup {key} |-> IF k = key THEN value ELSE st[k]]

\* fs.readJSON, line 343: the members of the text become an object again.
RECURSIVE FromEntries(_)
FromEntries(es) ==
  IF es = <<>> THEN EmptyStorage
  ELSE SetItem(FromEntries(SubSeq(es, 1, Len(es) - 1)),
               es[Len(es)][1], es[Len(es)][2])

ReadJSON(text) ==
  [cookies |-> text.cookies, localStorage |-> FromEntries(text.localStorage)]

\* loadSession, lines 355-359: setItem for each of Object.entries(storageData).
RECURSIVE SetItems(_, _)
SetItems(st, es) ==
  IF es = <<>> THEN st
  ELSE SetItems(SetItem(st, es[1][1], es[1][2]), Tail(es))

\* saveSession is about to run on a page that holds the session A, and
\* loadSession later on a fresh page.
RoundTripStart(A) ==
  [pc |-> "save_cookies", src |-> A, cookies |-> <<>>, data |-> EmptyStorage,
   file |-> WriteJSON(<<>>, EmptyStorage), dst |-> FreshPage]

RoundTripInit ==
  /\ ServiceInit
  /\ ans = NoAnswer
  /\ \E A \in Sessions : rt = RoundTripStart(A)

\* saveSession, line 303: page.cookies().
RtSaveCookies ==
  /\ rt.pc = "save_cookies"
  /\ rt' = [rt EXCEPT !.pc = "save_storage", !.cookies = SetToSeq(rt.src.cookies)]
  /\ UNCHANGED <<serviceVars, ans>>

\* saveSession, lines 306-316: page.evaluate returns the collected object.
RtSaveStorage ==
  /\ rt.pc = "save_storage"
  /\ rt' = [rt EXCEPT !.pc = "save_write", !.data = CollectStorage(rt.src.storage)]
  /\ UNCHANGED <<serviceVars, ans>>

\* saveSession, lines 318-323: sessionData is written to the session file.
RtSaveWrite ==
  /\ rt.pc = "save_write"
  /\ rt' = [rt EXCEPT !.pc = "load_read", !.file = WriteJSON(rt.cookies, rt.data)]
  /\ UNCHANGED <<serviceVars, ans>>

\* loadSession, lines 343-349: the file is read and the fresh page navigated.
RtLoadRead ==
  /\ rt.pc = "load_read"
  /\ rt' = [rt EXCEPT !.pc = "load_cookies",
                      !.cookies = ReadJSON(rt.file).cookies,
                      !.data = ReadJSON(rt.file).localStorage]
  /\ UNCHANGED <<serviceVars, ans>>

\* loadSession, line 352: page.setCookie(...sessionData.cookies).
RtLoadCookies ==
  /\ rt.pc = "load_cookies"
  /\ rt' = [rt EXCEPT !.pc = "load_storage",
                      !.dst.cookies = @ \cup {rt.cookies[n] : n \in DOMAIN rt.cookies}]
  /\ UNCHANGED <<serviceVars, ans>>

\* loadSession, lines 355-362: the storage is set and the page reloaded.
RtLoadStorage ==
  /\ rt.pc = "load_storage"
  /\ rt' = [rt EXCEPT !.pc = "done",
                      !.dst.storage = SetItems(@, Entries(rt.data))]
  /\ UNCHANGED <<serviceVars, ans>>

RoundTripNext ==
  \/ RtSaveCookies
  \/ RtSaveStorage
  \/ RtSaveWrite
  \/ RtLoadRead
  \/ RtLoadCookies
  \/ RtLoadStorage

RoundTripSpec == RoundTripInit /\ [][RoundTripNext]_vars

\* ------------------------------------------------ processQueue answer handling
\* An answer text is a sequence of pieces: the two code fences (```json and
\* ```, here FENCE_JSON and FENCE), a JSON
\* whitespace character, a whitespace character that JSON does not allow
\* (U+00A0), two complete JSON values, and other text.
JsonValues == {"{}", "7"}
JsonSpace == {" "}
TrimSpace == {" ", "nbsp"}
AnswerPieces == {"FENCE_JSON", "FENCE", "x"} \cup TrimSpace \cup JsonValues
Answers == UNION {[1..n -> AnswerPieces] : n \in 0..MaxAnswerLength}

\* The text without the leading and trailing pieces that are in ws.
RECURSIVE Strip(_, _)
Strip(text, ws) ==
  IF text = <<>> THEN text
  ELSE IF Head(text) \in ws THEN Strip(Tail(text), ws)
  ELSE IF text[Len(text)] \in ws THEN Strip(SubSeq(text, 1, Len(text) - 1), ws)
  ELSE text

\* JSON.parse: exactly one value, JSON whitespace allowed around it; anything
\* else is a SyntaxError.
JsonParse(text) ==
  LET core == Strip(text, JsonSpace)
  IN IF Len(core) = 1 /\ core[1] \in JsonValues
       THEN [ok |-> TRUE, value |-> core]
       ELSE [ok |-> FALSE, value |-> <<>>]

\* String.prototype.replace with a global pattern and ''.
RemoveAll(text, piece) == SelectSeq(text, LAMBDA t : t # piece)

\* processQueue, line 173: both fences removed, then trim().
CleanAnswer(text) ==
  Strip(RemoveAll(RemoveAll(text, "FENCE_JSON"), "FENCE"), TrimSpace)

\* A fallback that does not try the cleaned text.
SecondParseSkipped(text) == [ok |-> FALSE, value |-> <<>>]

\* processQueue, line 175: JSON.parse(cleanAnswer).
SecondParse(text) == JsonParse(CleanAnswer(text))

Parsed(value) == [wrapped |-> FALSE, text |-> value]
Wrapped(text) == [wrapped |-> TRUE, text |-> text]

\* askChatbot has returned the answer to processQueue (line 165).
AnswerStart(text) ==
  [pc |-> "parse", text |-> text, status |-> 0, body |-> Parsed(<<>>)]

AnswerInit ==
  /\ ServiceInit
  /\ rt = NoRoundTrip
  /\ \E text \in Answers : ans = AnswerStart(text)

\* processQueue, lines 168-171 and 181: JSON.parse(answer) returns and
\* res.json sends the value, or it throws into the first catch.
AnsFirstParse ==
  /\ ans.pc = "parse"
  /\ IF JsonParse(ans.text).ok
       THEN ans' = [ans EXCEPT !.pc = "sent", !.status = 200,
                               !.body = Parsed(JsonParse(ans.text).value)]
       ELSE ans' = [ans EXCEPT !.pc = "fallback"]
  /\ UNCHANGED <<serviceVars, rt>>

\* processQueue, lines 172-181: the cleaned text is parsed, or the answer is
\* wrapped; res.json sends the result.
AnsFallback ==
  /\ ans.pc = "fallback"
  /\ ans' = [ans EXCEPT !.pc = "sent", !.status = 200,
                        !.body = IF SecondParse(ans.text).ok
                                   THEN Parsed(SecondParse(ans.text).value)
                                   ELSE Wrapped(ans.text)]
  /\ UNCHANGED <<serviceVars, rt>>

AnswerNext ==
  \/ AnsFirstParse
  \/ AnsFallback

AnswerSpec == AnswerInit /\ [][AnswerNext]_vars

\* ----------------------------------------------------------------- claims
Asking == {w \in Workers : worker[w].pc \in AskPcs}

Accepted == 1..(nextReq - 1)

ValidPrompt(p) == p.kind = "string" /\ p.len > 0

Responses(r) == {i \in 1..Len(delivered) : delivered[i].req = r}

InQueue(r) == \E i \in 1..Len(requestQueue) : requestQueue[i] = r

\* C1: single-flight.  In every reachable state at most one askChatbot
\* invocation is in progress, whatever the interleaving of /chat
\* submissions, worker steps and cooldown timers.
C1_SingleFlight == Cardinality(Asking) <= 1

\* An invocation is in progress while two more requests wait behind it.
C1_Witness == Asking # {} /\ Len(requestQueue) = 3

\* C2: FIFO.  Request ids are given in the order of appending, so the
\* responses sent so far are those of requests 1..k in that order, and the
\* queue holds exactly the later requests, in order.
C2_Fifo ==
  /\ \A i \in 1..Len(delivered) : delivered[i].req = i
  /\ \A i \in 1..Len(requestQueue) : requestQueue[i] = Len(delivered) + i
  /\ Len(delivered) + Len(requestQueue) = nextReq - 1

\* Three responses were sent, successes and an error mixed.
C2_Witness ==
  /\ Len(delivered) = 3
  /\ delivered[1].status = 200 /\ delivered[2].status = 500
  /\ delivered[3].status = 200

\* A step that handles a /chat submission and changes the state.
Handled == last' # last \/ nextReq' # nextReq

\* C3: not-ready rejection.  A step that handles an authorized submission
\* with a valid prompt while isInitialized is false answers 503 and leaves
\* the queue as it is, and no step appends to the queue from a state where
\* the flag is false.
C3_NotReadyRejected ==
  /\ [][(Handled /\ last'.auth /\ ValidPrompt(last'.prompt) /\ ~isInitialized)
          => (last'.status = "503" /\ requestQueue' = requestQueue)]_vars
  /\ [][(nextReq' # nextReq \/ Len(requestQueue') > Len(requestQueue))
          => isInitialized]_vars

\* A valid, authorized prompt was answered 503 while earlier requests were
\* still queued.
C3_Witness ==
  /\ last.status = "503" /\ last.auth /\ ValidPrompt(last.prompt)
  /\ Len(requestQueue) > 0

\* C4: prompt validation.  An authorized submission whose prompt is absent,
\* not a string or longer than the maximum length is answered 400 and is
\* not queued.
C4_PromptValidation ==
  (/\ last.status # "none" /\ last.auth
   /\ \/ last.prompt.kind # "string"
      \/ last.prompt.len > MaxPromptLength)
    => last.status = "400"

\* The disconnect signal of the owned browser fires while Ready.
DisconnectWhileReady ==
  /\ isInitialized /\ browser \in connected
  /\ browser \notin connected'

\* An initialize invocation started by reinitialize has run to its end.
ReinitCompleted ==
  \E i \in InitSlots :
    /\ init[i].caller = "reinit" /\ init'[i].pc = "none"
    /\ lastInit' = "ok"

\* C5: disconnect recovery.  The step in which the disconnect signal fires
\* while Ready clears isInitialized and leaves a reinitialization timer
\* pending; a reinitialization that runs to its end sets the flag; and,
\* with timers firing and engine calls settling, a pending reinitialization
\* leads to the flag being true again unless the attempt fails or the
\* process exits.
C5_DisconnectRecovery ==
  /\ [][DisconnectWhileReady
          => (~isInitialized' /\ reinitTimers' = reinitTimers + 1)]_vars
  /\ [][ReinitCompleted => isInitialized']_vars
  /\ (reinitTimers > 0) ~> (isInitialized \/ lastInit = "failed" \/ exited)

\* The second browser is Ready after the first one disconnected.
C5_Witness ==
  /\ isInitialized /\ browser = 2 /\ browser \in connected
  /\ 1 \notin connected /\ ~exited

\* C6: unbounded retry.  Once the service has been Ready, whenever it is
\* not Ready a reinitialization attempt is pending or in progress.
C6_RetryPending ==
  (listening /\ ~isInitialized /\ ~exited)
    => (reinitTimers > 0 \/ \E i \in InitSlots : init[i].pc # "none")

\* A step in which the worker sends an error response.
ErrorSent ==
  /\ Len(delivered') > Len(delivered)
  /\ delivered'[Len(delivered')].status = 500

\* C7: per-item failure isolation.  A step that sends an error response is
\* the step of a worker whose askChatbot was in progress for the head of
\* the queue; it sends exactly one response, to that request, removes that
\* request, and leaves the worker in its loop (cooldown, flag still set);
\* after the cooldown the worker takes the next queued request.
C7_FailureIsolation ==
  /\ [][ErrorSent =>
          \E w \in Workers :
            /\ worker[w].pc \in AskPcs
            /\ requestQueue # <<>> /\ worker[w].req = Head(requestQueue)
            /\ delivered' = Append(delivered, Response(worker[w].req, 500))
            /\ requestQueue' = Tail(requestQueue)
            /\ worker'[w].pc = "cooldown"
            /\ isProcessing']_vars
  /\ [][\A w \in Workers :
          (worker[w].pc = "cooldown" /\ worker'[w].pc # "cooldown"
             /\ requestQueue # <<>>)
            => (worker'[w].pc = "ask_drive"
                  /\ worker'[w].req = Head(requestQueue))]_vars

\* An error response was followed by the success of the next request.
C7_Witness ==
  \E i \in 1..(Len(delivered) - 1) :
    delivered[i].status = 500 /\ delivered[i + 1].status = 200

\* C8: exactly-once, no-drop, no-retry.  Every accepted request has at most
\* one response and caused at most one askChatbot invocation, is in the
\* queue until it has its response, and has its response by the time the
\* process exits.
C8_ExactlyOnce ==
  \A r \in Accepted :
    /\ Cardinality(Responses(r)) <= 1
    /\ asked[r] <= 1
    /\ Responses(r) # {} => asked[r] = 1
    /\ Responses(r) = {} => InQueue(r)
    /\ exited => Responses(r) # {}

\* C9: readiness-flag invariant.  isInitialized is true only if a browser
\* and a page handle exist and that browser has not disconnected.
C9_ReadyOnlyIfConnected ==
  isInitialized => (browser # 0 /\ page # 0 /\ browser \in connected)

\* C10: graceful shutdown ordering.  While shutdown saves the session and
\* while it closes the browser, no request is queued and no askChatbot
\* invocation is in progress.
C10_ShutdownDrained ==
  shutdownPc \in {"save_cookies", "save_storage", "save_write", "close"}
    => (requestQueue = <<>> /\ Asking = {})

\* ------------------------------------------------------------------- C11
\* A step in which the worker calls askChatbot.
Invokes(w) == /\ asked' # asked
              /\ worker'[w] # worker[w]

\* The page handle is Ready: there is a page and its browser is connected.
PageReady == page # 0 /\ page \in connected

\* C11: whenever askChatbot is invoked while the page handle is not Ready
\* (none yet, or its browser disconnected), no browser operation is started
\* and the worker answers the head request with the error in the same step.
C11_AskPrecondition ==
  [][\A w \in Workers :
       Invokes(w) /\ ~PageReady =>
         /\ worker'[w].pc # "ask_drive"
         /\ \E r \in ReqIds :
              /\ asked'[r] # asked[r]
              /\ delivered' = Append(delivered, Response(r, 500))]_vars

\* ------------------------------------------------------------------- C13
LoadPcs == {"ls_exists", "ls_nav_fresh", "ls_read"} \cup LoadPagePcs

\* C13: every step in which loadSession ends, a failed step of it included,
\* ends initialize as well: the flag is true, the disconnect handler is on
\* the owned browser, and nothing was thrown.
C13_RestoreFailureNonFatal ==
  [][\A i \in InitSlots :
       init[i].pc \in LoadPcs /\ init'[i].pc \notin LoadPcs =>
         /\ init'[i] = NoInit
         /\ isInitialized'
         /\ browser' \in handlerOn'
         /\ lastInit' = "ok"
         /\ exited' = exited]_vars

\* initialize has completed although the page operations of loadSession
\* could only fail: the browser was gone before the handler was registered.
C13_Witness ==
  /\ isInitialized /\ lastInit = "ok"
  /\ browser \in handlerOn /\ browser \notin connected

\* ------------------------------------------------------------------- C15
InAsk(w) == worker[w].pc \in AskPcs

\* A step in which a worker begins an askChatbot call.
StartsAsk(w) == worker'[w].pc = "ask_drive" /\ worker[w] # worker'[w]

\* C15: a worker that has delivered a result (success or failure) is in the
\* cooldown next, and an askChatbot call begins only at the end of a cooldown
\* or when no worker is running at all; so two calls never begin without a
\* completed cooldown between them.
C15_CooldownOrdering ==
  [][\A w \in Workers :
       /\ delivered' # delivered /\ worker'[w] # worker[w]
            => worker'[w].pc = "cooldown"
       /\ InAsk(w) /\ worker'[w].pc # worker[w].pc /\ ~InAsk(w)'
            => worker'[w].pc = "cooldown" /\ delivered' # delivered
       /\ StartsAsk(w)
            => /\ \A v \in Workers \ {w} : worker[v].pc = "none"
               /\ worker[w].pc \in {"none", "cooldown"}]_vars

\* A second request is being asked: its call began when a cooldown ended.
C15_Witness ==
  \E w \in Workers : /\ worker[w].pc = "ask_drive"
                     /\ Len(delivered) >= 1
                     /\ worker[w].req > 1

\* ------------------------------------------------------------------- C16
\* C16: when the extracted text is empty, whatever becomes of the diagnostic
\* snapshot, the request is answered with the non-error response.
C16_EmptyExtractionNotFailure ==
  [][\A w \in Workers :
       worker[w].pc = "ask_snapshot" /\ worker'[w].pc # "ask_snapshot" =>
         delivered' = Append(delivered, Response(worker[w].req, 200))]_vars

\* ------------------------------------------------------------------- C17
\* C17: the settle delay is started only from the wait for the indicator to
\* appear; once the indicator has appeared, extraction begins only when the
\* wait for its disappearance has resolved.
C17_CompletionDetection ==
  [][\A w \in Workers :
       /\ worker'[w].pc = "ask_settle" /\ worker[w].pc # "ask_settle"
            => worker[w].pc = "ask_indicator"
       /\ worker[w].pc = "ask_gone" /\ worker'[w].pc # "ask_gone"
            => worker'[w].pc \in {"ask_extract", "cooldown"}]_vars

\* ------------------------------------------------------------------- C18
Initializing == {i \in InitSlots : init[i].pc # "none"}

\* C18, state part: at most one connected browser and at most one initialize
\* in progress.
SingleHandle ==
  /\ Cardinality(connected) <= 1
  /\ Cardinality(Initializing) <= 1

C19_NoStrandedRequests ==
  requestQueue # <<>> =>
    /\ isProcessing
    /\ \E w \in Workers : worker[w].pc # "none"

\* A request was appended during the cooldown after the last item.
C19_Witness ==
  /\ Len(requestQueue) = 1 /\ Len(delivered) >= 1
  /\ \E w \in Workers : worker[w].pc = "cooldown"

\* ------------------------------------------------------------------- C20
\* The page on which an askChatbot call in progress has an operation pending.
AskPage(w) == worker[w].on

\* loadSession has a navigation, setCookie, evaluate or reload pending on p.
RestoreDrives(p) ==
  /\ p = page
  /\ \E i \in InitSlots : init[i].pc \in LoadPagePcs \cup {"ls_nav_fresh"}

\* saveSession, for shutdown or for the admin route, has cookies() or
\* evaluate pending on p.
SaveDrives(p) == saveOn = p \/ admin.on = p

\* C20: while an askChatbot call is in progress, neither loadSession nor
\* saveSession has an operation pending on the page that call is using.
C20_ExclusivePage ==
  \A w \in Workers :
    InAsk(w) /\ AskPage(w) \in connected =>
      ~RestoreDrives(AskPage(w)) /\ ~SaveDrives(AskPage(w))

\* ------------------------------------------------------------------- C12
\* C12: saveSession on a page holding a session, then loadSession on a fresh
\* page, leaves that page with the same cookies (as a set) and the same
\* storage (as a map), the empty key and empty values included.
C12_SessionRoundTrip ==
  rt.pc = "done" =>
    /\ rt.dst.cookies = rt.src.cookies
    /\ rt.dst.storage = rt.src.storage

\* ------------------------------------------------------------------- C14
\* The text is one JSON value with nothing but JSON whitespace around it.
ValidJson(text) ==
  \E n \in DOMAIN text :
    /\ text[n] \in JsonValues
    /\ \A m \in DOMAIN text \ {n} : text[m] \in JsonSpace

\* The text is one JSON value once the code fences and the surrounding
\* whitespace of any kind are taken away.
ValidJsonInFences(text) ==
  \E a, b \in DOMAIN text :
    /\ a <= b
    /\ \A m \in 1..(a - 1) : text[m] \in TrimSpace \cup {"FENCE_JSON", "FENCE"}
    /\ \A m \in (b + 1)..Len(text) : text[m] \in TrimSpace \cup {"FENCE_JSON", "FENCE"}
    /\ text[a] \notin TrimSpace /\ text[b] \notin TrimSpace
    /\ \E n \in a..b :
         /\ text[n] \in JsonValues
         /\ \A m \in (a..b) \ {n} : text[m] \in JsonSpace \cup {"FENCE_JSON", "FENCE"}

\* C14 as stated: every answer that is not valid JSON is answered 200 with
\* the body { response: <the raw answer> }.
C14_MalformedAnswerFallback ==
  ans.pc = "sent" /\ ~ValidJson(ans.text) =>
    ans.status = 200 /\ ans.body = Wrapped(ans.text)

\* C14, amended: every answer is answered 200; an answer that is not valid
\* JSON even with its code fences and surrounding whitespace removed gets
\* the body { response: <the raw answer> }, and one that is valid JSON once
\* they are removed gets that JSON value as the body.
C14_FallbackAfterCleaning ==
  ans.pc = "sent" =>
    /\ ans.status = 200
    /\ ~ValidJson(ans.text) /\ ~ValidJsonInFences(ans.text)
         => ans.body = Wrapped(ans.text)
    /\ ~ValidJson(ans.text) /\ ValidJsonInFences(ans.text)
         => ~ans.body.wrapped /\ ans.body.text \in {<<v>> : v \in JsonValues}

\* A fenced JSON value was answered with the value itself.
C14_Witness ==
  /\ ans.pc = "sent" /\ ans.status = 200
  /\ ans.text = <<"FENCE_JSON", "{}", "FENCE">>
  /\ ans.body = Parsed(<<"{}">>)

====
